---- MODULE Spec2Model ----
(***************************************************************************)
(* Replication agent of nats-kv-sync (src/src/index.ts): per site, a Local *)
(* Change Watcher, a Remote Operation Applier and an Anti-Entropy cycle    *)
(* share a data bucket (kv) and a metadata bucket (kvMeta) and exchange    *)
(* CrdtOperations over one durable stream.                                 *)
(*                                                                         *)
(* Granularity: one action per awaited store or stream call (the moment    *)
(* the call takes effect), together with the synchronous code that         *)
(* follows it up to the next awaited call.                                 *)
(***************************************************************************)
EXTENDS Integers, Sequences, FiniteSets, TLC

\* ------------------------------------------------------------- bounds
MaxWrites == 2      \* user PUT/DELETE calls in one run
MaxClock == 2       \* largest value of a site's Date.now()
MaxCycles == 1      \* Anti-Entropy cycles in one run (Spec)
MaxCyclesAE == 2    \* Anti-Entropy cycles in one run (SpecAE)
MaxFailures == 1    \* store-write failures injected in one run
MaxOps == 2         \* operations preloaded on the stream (SpecApplier)

\* ------------------------------------------------------------- domains
Sites == {"a", "b"}                 \* sites running an agent (NODE_ID)
Nodes == Sites \cup {"c", "d"}      \* every origin an operation may name
Keys == {"x"}
Values == {"1", "2"}

Absent == "ABSENT"                  \* no data record / null value
NoMeta == [ts |-> -1, node_id |-> ""]     \* kvMeta.get(key) found nothing
NoEntry == [key |-> "", value |-> Absent, operation |-> "", cause |-> ""]

\* localMeta when the key has no metadata record
DefaultMeta == [ts |-> 0, node_id |-> ""]

\* JavaScript's > on the node ids used here ("" < "a" < "b" < "c" < "d")
NodeRank(n) ==
  CASE n = "" -> 0 [] n = "a" -> 1 [] n = "b" -> 2 [] n = "c" -> 3 [] n = "d" -> 4

StrGT(x, y) == NodeRank(x) > NodeRank(y)

VARIABLES
  kv,        \* [site][key]: the data bucket "config"
  kvMeta,    \* [site][key]: the metadata bucket "config_meta"
  watchq,    \* [site]: change notifications of kv not yet taken by the Watcher
  stream,    \* the REPLICATION stream: every published operation, in order
  acked,     \* [site]: stream positions the site's durable consumer acknowledged
  clock,     \* [site]: Date.now()
  wpc, wentry, wts,            \* Watcher: position, current entry, ts
  apc, aidx,                   \* Applier: position, stream position of message m
  epc, ekeys, ekey, evalue, emeta,   \* Anti-Entropy: position and locals
  nwrites, ncycles, nfail,     \* counters that bound a run
  maxAcc,    \* [site][key]: history - the greatest operation accepted for the key
  failed,    \* [site]: history - stream positions whose application threw
  again      \* [site]: history - the last delivery repeated the one before it

vars == <<kv, kvMeta, watchq, stream, acked, clock, wpc, wentry, wts,
          apc, aidx, epc, ekeys, ekey, evalue, emeta,
          nwrites, ncycles, nfail, maxAcc, failed, again>>

watcherVars == <<wpc, wentry, wts>>
applierVars == <<apc, aidx>>
aeVars == <<epc, ekeys, ekey, evalue, emeta>>
counters == <<nwrites, ncycles, nfail>>
history == <<maxAcc, failed, again>>

NoAcc == [op |-> "", ts |-> -1, node_id |-> ""]

\* ------------------------------------------------------------- data
MetaOf(ts, node) == [ts |-> ts, node_id |-> node]

Entry(k, v, operation, cause) ==
  [key |-> k, value |-> v, operation |-> operation, cause |-> cause]

Operation(op, k, v, ts, node) ==
  [op |-> op, key |-> k, value |-> v, ts |-> ts, node_id |-> node]

\* the operations a Watcher or an Anti-Entropy cycle can publish
OpDomain ==
  {Operation("PUT", k, v, t, n) : k \in Keys, v \in Values, t \in 1..MaxClock, n \in Nodes}
  \cup {Operation("DEL", k, Absent, t, n) : k \in Keys, t \in 1..MaxClock, n \in Nodes}

\* (timestamp, origin_id) order of the LWW rule, on metadata-shaped records
VersionLT(m1, m2) ==
  \/ m1.ts < m2.ts
  \/ m1.ts = m2.ts /\ NodeRank(m1.node_id) < NodeRank(m2.node_id)

\* history: the greater of the accepted operations, the later one on a tie
Accept(cur, new) == IF VersionLT(new, cur) THEN cur ELSE new

Sum(f) == f["a"] + f["b"]

TotalWrites == Sum(nwrites)

\* ------------------------------------------------------------- Init
Init ==
  /\ kv = [s \in Sites |-> [k \in Keys |-> Absent]]
  /\ kvMeta = [s \in Sites |-> [k \in Keys |-> NoMeta]]
  /\ watchq = [s \in Sites |-> <<>>]
  /\ stream = <<>>
  /\ acked = [s \in Sites |-> {}]
  /\ clock = [s \in Sites |-> 1]
  /\ wpc = [s \in Sites |-> "idle"]
  /\ wentry = [s \in Sites |-> NoEntry]
  /\ wts = [s \in Sites |-> 0]
  /\ apc = [s \in Sites |-> "idle"]
  /\ aidx = [s \in Sites |-> 0]
  /\ epc = [s \in Sites |-> "idle"]
  /\ ekeys = [s \in Sites |-> {}]
  /\ ekey = [s \in Sites |-> ""]
  /\ evalue = [s \in Sites |-> Absent]
  /\ emeta = [s \in Sites |-> NoMeta]
  /\ nwrites = [s \in Sites |-> 0]
  /\ ncycles = 0
  /\ nfail = 0
  /\ maxAcc = [s \in Sites |-> [k \in Keys |-> NoAcc]]
  /\ failed = [s \in Sites |-> {}]
  /\ again = [s \in Sites |-> FALSE]

\* ------------------------------------------------------------- environment
\* A user or application PUT on the local data bucket.
UserPut(s, k, v) ==
  /\ TotalWrites < MaxWrites
  /\ nwrites' = [nwrites EXCEPT ![s] = @ + 1]
  /\ kv' = [kv EXCEPT ![s][k] = v]
  /\ watchq' = [watchq EXCEPT ![s] = Append(@, Entry(k, v, "PUT", "user"))]
  /\ UNCHANGED <<kvMeta, stream, acked, clock, watcherVars, applierVars, aeVars,
                 ncycles, nfail, history>>

\* A user or application DELETE on the local data bucket.
UserDelete(s, k) ==
  /\ TotalWrites < MaxWrites
  /\ nwrites' = [nwrites EXCEPT ![s] = @ + 1]
  /\ kv' = [kv EXCEPT ![s][k] = Absent]
  /\ watchq' = [watchq EXCEPT ![s] = Append(@, Entry(k, Absent, "DEL", "user"))]
  /\ UNCHANGED <<kvMeta, stream, acked, clock, watcherVars, applierVars, aeVars,
                 ncycles, nfail, history>>

\* The site's wall clock advances.
Tick(s) ==
  /\ clock[s] < MaxClock
  /\ clock' = [clock EXCEPT ![s] = @ + 1]
  /\ UNCHANGED <<kv, kvMeta, watchq, stream, acked, watcherVars, applierVars,
                 aeVars, counters, history>>

\* ------------------------------------------------------------- Watcher
\* opType of a change notification
OpType(entry) ==
  IF entry.operation = "DEL" \/ entry.value = Absent THEN "DEL" ELSE "PUT"

\* the echo filter: a metadata record exists and names another node
IsEcho(currentMeta, s) == currentMeta # NoMeta /\ currentMeta.node_id # s

\* Takes the next notification and reads the key's metadata record; an echo
\* is discarded at once.
WatcherGet(s) ==
  /\ wpc[s] = "idle"
  /\ watchq[s] # <<>>
  /\ LET entry == Head(watchq[s])
         currentMeta == kvMeta[s][entry.key]
     IN /\ watchq' = [watchq EXCEPT ![s] = Tail(@)]
        /\ IF IsEcho(currentMeta, s)
             THEN UNCHANGED <<wpc, wentry>>
             ELSE /\ wpc' = [wpc EXCEPT ![s] = "put"]
                  /\ wentry' = [wentry EXCEPT ![s] = entry]
  /\ UNCHANGED <<kv, kvMeta, stream, acked, clock, wts, applierVars, aeVars,
                 counters, history>>

\* ts = Date.now(); kvMeta.put(key, {ts, node_id: NODE_ID})
WatcherPutMeta(s) ==
  /\ wpc[s] = "put"
  /\ LET k == wentry[s].key
         ts == clock[s]
     IN /\ kvMeta' = [kvMeta EXCEPT ![s][k] = MetaOf(ts, s)]
        /\ wts' = [wts EXCEPT ![s] = ts]
        /\ maxAcc' = [maxAcc EXCEPT ![s][k] =
             Accept(@, [op |-> OpType(wentry[s]), ts |-> ts, node_id |-> s])]
  /\ wpc' = [wpc EXCEPT ![s] = "publish"]
  /\ UNCHANGED <<kv, watchq, stream, acked, clock, wentry, applierVars, aeVars,
                 counters, failed, again>>

\* the operation the Watcher publishes for its current entry
WatcherOp(s) ==
  Operation(OpType(wentry[s]), wentry[s].key, wentry[s].value, wts[s], s)

\* js.publish(SUBJECT_NAME, op)
WatcherPublish(s) ==
  /\ wpc[s] = "publish"
  /\ stream' = Append(stream, WatcherOp(s))
  /\ wpc' = [wpc EXCEPT ![s] = "idle"]
  /\ wentry' = [wentry EXCEPT ![s] = NoEntry]
  /\ wts' = [wts EXCEPT ![s] = 0]
  /\ UNCHANGED <<kv, kvMeta, watchq, acked, clock, applierVars, aeVars,
                 counters, history>>

\* An awaited call of the Watcher throws - kvMeta.get on a notification just
\* taken, kvMeta.put or js.publish.  Nothing catches it: the for-await loop
\* ends and the promise main() dropped is rejected.  Depending on the
\* runtime's handling of unhandled rejections, either only the Watcher is
\* gone (exits = FALSE) or the whole process exits (exits = TRUE).
WatcherFail(s, exits) ==
  /\ wpc[s] \in {"put", "publish"} \/ (wpc[s] = "idle" /\ watchq[s] # <<>>)
  /\ apc[s] # "dead"
  /\ nfail < MaxFailures
  /\ nfail' = nfail + 1
  /\ watchq' = [watchq EXCEPT ![s] = IF wpc[s] = "idle" THEN Tail(@) ELSE @]
  /\ wpc' = [wpc EXCEPT ![s] = "dead"]
  /\ wentry' = [wentry EXCEPT ![s] = NoEntry]
  /\ wts' = [wts EXCEPT ![s] = 0]
  /\ apc' = [apc EXCEPT ![s] = IF exits THEN "dead" ELSE @]
  /\ UNCHANGED <<kv, kvMeta, stream, acked, clock, aidx, aeVars, nwrites,
                 ncycles, history>>

\* ------------------------------------------------------------- Applier
\* (mutant) the self-echo test is missing
IsSelfEchoNever(op, s) == FALSE

\* self-echo test on a received operation
IsSelfEcho(op, s) == op.node_id = s

\* (mutant) the record of a key without a data value counts as no record
LocalMetaOfPresent(s, k) ==
  IF kvMeta[s][k] # NoMeta /\ kv[s][k] # Absent THEN kvMeta[s][k] ELSE DefaultMeta

\* localMeta: the stored record, or {ts: 0, node_id: ""} when there is none
LocalMetaOf(s, k) == IF kvMeta[s][k] # NoMeta THEN kvMeta[s][k] ELSE DefaultMeta

\* (mutant) an operation equal to the stored record wins as well
RemoteWinsOrEqual(op, localMeta) ==
  \/ op.ts > localMeta.ts
  \/ op.ts = localMeta.ts /\ ~StrGT(localMeta.node_id, op.node_id)

\* (mutant) the tie-break compares the node ids the other way round
RemoteWinsTieReversed(op, localMeta) ==
  \/ op.ts > localMeta.ts
  \/ op.ts = localMeta.ts /\ StrGT(localMeta.node_id, op.node_id)

\* the LWW decision
RemoteWins(op, localMeta) ==
  \/ op.ts > localMeta.ts
  \/ op.ts = localMeta.ts /\ StrGT(op.node_id, localMeta.node_id)

\* newMeta of a winning operation
NewMeta(op) == MetaOf(op.ts, op.node_id)

\* the data record after the winning operation's mutation
DataAfter(cur, op) ==
  IF op.op = "PUT" /\ op.value # Absent THEN op.value
  ELSE IF op.op = "DEL" THEN Absent
  ELSE cur

\* the change notifications the mutation adds to the data bucket's feed
DataNotes(op) ==
  IF op.op = "PUT" /\ op.value # Absent
    THEN <<Entry(op.key, op.value, "PUT", "applier")>>
  ELSE IF op.op = "DEL" THEN <<Entry(op.key, Absent, "DEL", "applier")>>
  ELSE <<>>

\* Message i is delivered and names this site as origin: m.ack(); continue.
ApplierSelf(s, i) ==
  /\ apc[s] = "idle"
  /\ i \in 1..Len(stream)
  /\ IsSelfEcho(stream[i], s)
  /\ aidx' = [aidx EXCEPT ![s] = i]
  /\ again' = [again EXCEPT ![s] = (i = aidx[s])]
  /\ acked' = [acked EXCEPT ![s] = @ \cup {i}]
  /\ UNCHANGED <<kv, kvMeta, watchq, stream, clock, watcherVars, apc,
                 aeVars, counters, maxAcc, failed>>

\* (mutant) the message is acknowledged as soon as the decision is taken
ApplierGetAckFirst(s, i) ==
  /\ apc[s] = "idle"
  /\ i \in 1..Len(stream)
  /\ ~IsSelfEcho(stream[i], s)
  /\ LET op == stream[i]
         localMeta == LocalMetaOf(s, op.key)
     IN apc' = [apc EXCEPT ![s] = IF RemoteWins(op, localMeta) THEN "meta" ELSE "idle"]
  /\ acked' = [acked EXCEPT ![s] = @ \cup {i}]
  /\ aidx' = [aidx EXCEPT ![s] = i]
  /\ again' = [again EXCEPT ![s] = (i = aidx[s])]
  /\ UNCHANGED <<kv, kvMeta, watchq, stream, clock, watcherVars, aeVars,
                 counters, maxAcc, failed>>

\* Message i is delivered from another node: read the metadata record and
\* decide; a losing operation is acknowledged at once.
ApplierGet(s, i) ==
  /\ apc[s] = "idle"
  /\ i \in 1..Len(stream)
  /\ ~IsSelfEcho(stream[i], s)
  /\ LET op == stream[i]
         localMeta == LocalMetaOf(s, op.key)
     IN IF RemoteWins(op, localMeta)
          THEN /\ apc' = [apc EXCEPT ![s] = "meta"]
               /\ UNCHANGED acked
          ELSE /\ acked' = [acked EXCEPT ![s] = @ \cup {i}]
               /\ UNCHANGED apc
  /\ aidx' = [aidx EXCEPT ![s] = i]
  /\ again' = [again EXCEPT ![s] = (i = aidx[s])]
  /\ UNCHANGED <<kv, kvMeta, watchq, stream, clock, watcherVars, aeVars,
                 counters, maxAcc, failed>>

\* (mutant) the metadata record is stamped with the local clock
ApplierPutMetaNow(s) ==
  /\ apc[s] = "meta"
  /\ LET op == stream[aidx[s]]
     IN /\ kvMeta' = [kvMeta EXCEPT ![s][op.key] = MetaOf(clock[s], op.node_id)]
        /\ maxAcc' = [maxAcc EXCEPT ![s][op.key] =
             Accept(@, [op |-> op.op, ts |-> op.ts, node_id |-> op.node_id])]
  /\ apc' = [apc EXCEPT ![s] = "data"]
  /\ UNCHANGED <<kv, watchq, stream, acked, clock, watcherVars, aidx, aeVars,
                 counters, failed, again>>

\* kvMeta.put(key, newMeta): the metadata record is written first
ApplierPutMeta(s) ==
  /\ apc[s] = "meta"
  /\ LET op == stream[aidx[s]]
     IN /\ kvMeta' = [kvMeta EXCEPT ![s][op.key] = NewMeta(op)]
        /\ maxAcc' = [maxAcc EXCEPT ![s][op.key] =
             Accept(@, [op |-> op.op, ts |-> op.ts, node_id |-> op.node_id])]
  /\ apc' = [apc EXCEPT ![s] = "data"]
  /\ UNCHANGED <<kv, watchq, stream, acked, clock, watcherVars, aidx, aeVars,
                 counters, failed, again>>

\* kv.put / kv.delete, then m.ack()
ApplierData(s) ==
  /\ apc[s] = "data"
  /\ LET op == stream[aidx[s]]
     IN /\ kv' = [kv EXCEPT ![s][op.key] = DataAfter(@, op)]
        /\ watchq' = [watchq EXCEPT ![s] = @ \o DataNotes(op)]
  /\ acked' = [acked EXCEPT ![s] = @ \cup {aidx[s]}]
  /\ apc' = [apc EXCEPT ![s] = "idle"]
  /\ UNCHANGED <<kvMeta, stream, clock, watcherVars, aidx, aeVars, counters,
                 history>>

\* The awaited metadata or data write throws: nothing catches it inside the
\* message loop, the loop ends and the message stays unacknowledged.
ApplierFail(s) ==
  /\ apc[s] \in {"meta", "data"}
  /\ nfail < MaxFailures
  /\ nfail' = nfail + 1
  /\ failed' = [failed EXCEPT ![s] = @ \cup {aidx[s]}]
  /\ apc' = [apc EXCEPT ![s] = "dead"]
  /\ aidx' = [aidx EXCEPT ![s] = 0]
  /\ UNCHANGED <<kv, kvMeta, watchq, stream, acked, clock, watcherVars, aeVars,
                 nwrites, ncycles, maxAcc, again>>

\* The agent process is started again after the message loop died: main()
\* runs anew; the durable consumer resumes after the last acknowledged
\* message, the Watcher and the Anti-Entropy timer start from scratch (the
\* item either was working on is abandoned).
Restart(s) ==
  /\ apc[s] = "dead"
  /\ apc' = [apc EXCEPT ![s] = "idle"]
  /\ wpc' = [wpc EXCEPT ![s] = "idle"]
  /\ wentry' = [wentry EXCEPT ![s] = NoEntry]
  /\ wts' = [wts EXCEPT ![s] = 0]
  /\ epc' = [epc EXCEPT ![s] = "idle"]
  /\ ekeys' = [ekeys EXCEPT ![s] = {}]
  /\ ekey' = [ekey EXCEPT ![s] = ""]
  /\ evalue' = [evalue EXCEPT ![s] = Absent]
  /\ emeta' = [emeta EXCEPT ![s] = NoMeta]
  /\ UNCHANGED <<kv, kvMeta, watchq, stream, acked, clock, aidx, counters, history>>

\* the next message of the site's durable consumer, delivered in stream order
NextIdx(s) == Cardinality(acked[s]) + 1

\* ------------------------------------------------------------- Anti-Entropy
\* the operation re-broadcast for a key: stored value, stored ts and node_id
AEOp(k, value, meta) == Operation("PUT", k, value, meta.ts, meta.node_id)

\* The interval fires: keys = kv.keys()
AEStart(s, limit) ==
  /\ epc[s] = "idle"
  /\ ncycles < limit
  /\ ncycles' = ncycles + 1
  /\ LET keys == {k \in DOMAIN kv[s] : kv[s][k] # Absent}
     IN /\ ekeys' = [ekeys EXCEPT ![s] = keys]
        /\ epc' = [epc EXCEPT ![s] = IF keys = {} THEN "idle" ELSE "iter"]
  /\ UNCHANGED <<kv, kvMeta, watchq, stream, acked, clock, watcherVars,
                 applierVars, ekey, evalue, emeta, nwrites, nfail, history>>

\* entry = kv.get(key) for the next key of the iteration
AEGet(s, k) ==
  /\ epc[s] = "iter"
  /\ k \in ekeys[s]
  /\ ekeys' = [ekeys EXCEPT ![s] = @ \ {k}]
  /\ ekey' = [ekey EXCEPT ![s] = k]
  /\ evalue' = [evalue EXCEPT ![s] = kv[s][k]]
  /\ epc' = [epc EXCEPT ![s] = "getmeta"]
  /\ UNCHANGED <<kv, kvMeta, watchq, stream, acked, clock, watcherVars,
                 applierVars, emeta, counters, history>>

\* where the cycle goes after a key: the next key, or the end of the cycle
AEAfterKey(s) == IF ekeys[s] = {} THEN "idle" ELSE "iter"

\* (mutant) a key without a metadata record is re-broadcast with the default
AEGetMetaDefault(s) ==
  /\ epc[s] = "getmeta"
  /\ LET meta == kvMeta[s][ekey[s]]
     IN /\ emeta' = [emeta EXCEPT ![s] = IF meta = NoMeta THEN DefaultMeta ELSE meta]
        /\ epc' = [epc EXCEPT ![s] =
             IF evalue[s] = Absent THEN AEAfterKey(s) ELSE "publish"]
  /\ UNCHANGED <<kv, kvMeta, watchq, stream, acked, clock, watcherVars,
                 applierVars, ekeys, ekey, evalue, counters, history>>

\* metaEntry = kvMeta.get(key); if (!entry || !metaEntry) continue
AEGetMeta(s) ==
  /\ epc[s] = "getmeta"
  /\ LET meta == kvMeta[s][ekey[s]]
     IN /\ emeta' = [emeta EXCEPT ![s] = meta]
        /\ epc' = [epc EXCEPT ![s] =
             IF evalue[s] = Absent \/ meta = NoMeta THEN AEAfterKey(s) ELSE "publish"]
  /\ UNCHANGED <<kv, kvMeta, watchq, stream, acked, clock, watcherVars,
                 applierVars, ekeys, ekey, evalue, counters, history>>

\* (mutant) the re-broadcast is stamped like a fresh local write
AEPublishNow(s) ==
  /\ epc[s] = "publish"
  /\ stream' = Append(stream, Operation("PUT", ekey[s], evalue[s], clock[s], s))
  /\ epc' = [epc EXCEPT ![s] = AEAfterKey(s)]
  /\ UNCHANGED <<kv, kvMeta, watchq, acked, clock, watcherVars, applierVars,
                 ekeys, ekey, evalue, emeta, counters, history>>

\* js.publish(SUBJECT_NAME, op)
AEPublish(s) ==
  /\ epc[s] = "publish"
  /\ stream' = Append(stream, AEOp(ekey[s], evalue[s], emeta[s]))
  /\ epc' = [epc EXCEPT ![s] = AEAfterKey(s)]
  /\ UNCHANGED <<kv, kvMeta, watchq, acked, clock, watcherVars, applierVars,
                 ekeys, ekey, evalue, emeta, counters, history>>

\* An awaited call of the cycle throws - kv.get (the next key is not read),
\* kvMeta.get or js.publish: the catch around the whole cycle logs the
\* error and the callback returns; the timer stays armed.
AEFail(s) ==
  /\ epc[s] \in {"iter", "getmeta", "publish"}
  /\ nfail < MaxFailures
  /\ nfail' = nfail + 1
  /\ epc' = [epc EXCEPT ![s] = "idle"]
  /\ ekeys' = [ekeys EXCEPT ![s] = {}]
  /\ UNCHANGED <<kv, kvMeta, watchq, stream, acked, clock, watcherVars,
                 applierVars, ekey, evalue, emeta, nwrites, ncycles, history>>

\* ------------------------------------------------------------- the agent system
Next ==
  \/ \E s \in Sites, k \in Keys, v \in Values : UserPut(s, k, v)
  \/ \E s \in Sites, k \in Keys : UserDelete(s, k)
  \/ \E s \in Sites : Tick(s)
  \/ \E s \in Sites : WatcherGet(s)
  \/ \E s \in Sites : WatcherPutMeta(s)
  \/ \E s \in Sites : WatcherPublish(s)
  \/ \E s \in Sites : ApplierSelf(s, NextIdx(s))
  \/ \E s \in Sites : ApplierGet(s, NextIdx(s))
  \/ \E s \in Sites : ApplierPutMeta(s)
  \/ \E s \in Sites : ApplierData(s)
  \/ \E s \in Sites : ApplierFail(s)
  \/ \E s \in Sites : Restart(s)
  \/ \E s \in Sites : AEStart(s, MaxCycles)
  \/ \E s \in Sites, k \in Keys : AEGet(s, k)
  \/ \E s \in Sites : AEGetMeta(s)
  \/ \E s \in Sites : AEPublish(s)

Spec == Init /\ [][Next]_vars

\* ------------------------------------------------------------- the Applier alone
\* Some operations are already on the stream; every site's Applier receives
\* them in any order and any number of times (at-least-once delivery), while
\* the clocks run.  No user writes, Watchers or Anti-Entropy cycles.
StreamDomain == UNION {[1..n -> OpDomain] : n \in 0..MaxOps}

InitApplier ==
  /\ kv = [s \in Sites |-> [k \in Keys |-> Absent]]
  /\ kvMeta = [s \in Sites |-> [k \in Keys |-> NoMeta]]
  /\ watchq = [s \in Sites |-> <<>>]
  /\ stream \in StreamDomain
  /\ acked = [s \in Sites |-> {}]
  /\ clock = [s \in Sites |-> 1]
  /\ wpc = [s \in Sites |-> "idle"]
  /\ wentry = [s \in Sites |-> NoEntry]
  /\ wts = [s \in Sites |-> 0]
  /\ apc = [s \in Sites |-> "idle"]
  /\ aidx = [s \in Sites |-> 0]
  /\ epc = [s \in Sites |-> "idle"]
  /\ ekeys = [s \in Sites |-> {}]
  /\ ekey = [s \in Sites |-> ""]
  /\ evalue = [s \in Sites |-> Absent]
  /\ emeta = [s \in Sites |-> NoMeta]
  /\ nwrites = [s \in Sites |-> 0]
  /\ ncycles = 0
  /\ nfail = 0
  /\ maxAcc = [s \in Sites |-> [k \in Keys |-> NoAcc]]
  /\ failed = [s \in Sites |-> {}]
  /\ again = [s \in Sites |-> FALSE]

NextApplier ==
  \/ \E s \in Sites : Tick(s)
  \/ \E s \in Sites, i \in 1..Len(stream) : ApplierSelf(s, i)
  \/ \E s \in Sites, i \in 1..Len(stream) : ApplierGet(s, i)
  \/ \E s \in Sites : ApplierPutMeta(s)
  \/ \E s \in Sites : ApplierData(s)

SpecApplier == InitApplier /\ [][NextApplier]_vars

\* ------------------------------------------------------------- Anti-Entropy and Applier
\* The sites hold arbitrary data and metadata records; only the Anti-Entropy
\* cycles and the Appliers run, and the clocks (no user writes, so the
\* Watchers stay idle).
MetaDomain == {MetaOf(t, n) : t \in 1..MaxClock, n \in Nodes}

InitAE ==
  /\ kv \in [Sites -> [Keys -> Values \cup {Absent}]]
  /\ kvMeta \in [Sites -> [Keys -> MetaDomain \cup {NoMeta}]]
  /\ watchq = [s \in Sites |-> <<>>]
  /\ stream = <<>>
  /\ acked = [s \in Sites |-> {}]
  /\ clock = [s \in Sites |-> 1]
  /\ wpc = [s \in Sites |-> "idle"]
  /\ wentry = [s \in Sites |-> NoEntry]
  /\ wts = [s \in Sites |-> 0]
  /\ apc = [s \in Sites |-> "idle"]
  /\ aidx = [s \in Sites |-> 0]
  /\ epc = [s \in Sites |-> "idle"]
  /\ ekeys = [s \in Sites |-> {}]
  /\ ekey = [s \in Sites |-> ""]
  /\ evalue = [s \in Sites |-> Absent]
  /\ emeta = [s \in Sites |-> NoMeta]
  /\ nwrites = [s \in Sites |-> 0]
  /\ ncycles = 0
  /\ nfail = 0
  /\ maxAcc = [s \in Sites |-> [k \in Keys |-> NoAcc]]
  /\ failed = [s \in Sites |-> {}]
  /\ again = [s \in Sites |-> FALSE]

NextAE ==
  \/ \E s \in Sites : Tick(s)
  \/ \E s \in Sites : ApplierSelf(s, NextIdx(s))
  \/ \E s \in Sites : ApplierGet(s, NextIdx(s))
  \/ \E s \in Sites : ApplierPutMeta(s)
  \/ \E s \in Sites : ApplierData(s)
  \/ \E s \in Sites : AEStart(s, MaxCyclesAE)
  \/ \E s \in Sites, k \in Keys : AEGet(s, k)
  \/ \E s \in Sites : AEGetMeta(s)
  \/ \E s \in Sites : AEPublish(s)

SpecAE == InitAE /\ [][NextAE]_vars

\* ------------------------------------------------------------- Anti-Entropy with failures
\* The Anti-Entropy cycles alone, over buckets of two keys, with store and
\* stream calls that may throw.
KeysAE == {"x", "y"}

InitAEErr ==
  /\ kv \in [Sites -> [KeysAE -> Values]]
  /\ kvMeta \in [Sites -> [KeysAE -> {MetaOf(1, "c"), NoMeta}]]
  /\ watchq = [s \in Sites |-> <<>>]
  /\ stream = <<>>
  /\ acked = [s \in Sites |-> {}]
  /\ clock = [s \in Sites |-> 1]
  /\ wpc = [s \in Sites |-> "idle"]
  /\ wentry = [s \in Sites |-> NoEntry]
  /\ wts = [s \in Sites |-> 0]
  /\ apc = [s \in Sites |-> "idle"]
  /\ aidx = [s \in Sites |-> 0]
  /\ epc = [s \in Sites |-> "idle"]
  /\ ekeys = [s \in Sites |-> {}]
  /\ ekey = [s \in Sites |-> ""]
  /\ evalue = [s \in Sites |-> Absent]
  /\ emeta = [s \in Sites |-> NoMeta]
  /\ nwrites = [s \in Sites |-> 0]
  /\ ncycles = 0
  /\ nfail = 0
  /\ maxAcc = [s \in Sites |-> [k \in KeysAE |-> NoAcc]]
  /\ failed = [s \in Sites |-> {}]
  /\ again = [s \in Sites |-> FALSE]

NextAEErr ==
  \/ \E s \in Sites : AEStart(s, MaxCyclesAE)
  \/ \E s \in Sites, k \in KeysAE : AEGet(s, k)
  \/ \E s \in Sites : AEGetMeta(s)
  \/ \E s \in Sites : AEPublish(s)
  \/ \E s \in Sites : AEFail(s)

SpecAEErr == InitAEErr /\ [][NextAEErr]_vars

\* ------------------------------------------------------------- Watcher with failures
\* The users, the clocks and the Watchers, with store and stream calls that
\* may throw; a process that exited may be started again.
NextWatcherErr ==
  \/ \E s \in Sites, k \in Keys, v \in Values : UserPut(s, k, v)
  \/ \E s \in Sites, k \in Keys : UserDelete(s, k)
  \/ \E s \in Sites : Tick(s)
  \/ \E s \in Sites : WatcherGet(s)
  \/ \E s \in Sites : WatcherPutMeta(s)
  \/ \E s \in Sites : WatcherPublish(s)
  \/ \E s \in Sites, exits \in BOOLEAN : WatcherFail(s, exits)
  \/ \E s \in Sites : Restart(s)

SpecWatcherErr == Init /\ [][NextWatcherErr]_vars

\* ------------------------------------------------------------- Watchers and Appliers
\* The users, the clocks, the Watchers and the Appliers: no Anti-Entropy
\* cycle, no failing call.
NextLoop ==
  \/ \E s \in Sites, k \in Keys, v \in Values : UserPut(s, k, v)
  \/ \E s \in Sites, k \in Keys : UserDelete(s, k)
  \/ \E s \in Sites : Tick(s)
  \/ \E s \in Sites : WatcherGet(s)
  \/ \E s \in Sites : WatcherPutMeta(s)
  \/ \E s \in Sites : WatcherPublish(s)
  \/ \E s \in Sites : ApplierSelf(s, NextIdx(s))
  \/ \E s \in Sites : ApplierGet(s, NextIdx(s))
  \/ \E s \in Sites : ApplierPutMeta(s)
  \/ \E s \in Sites : ApplierData(s)

SpecLoop == Init /\ [][NextLoop]_vars

\* ------------------------------------------------------------- shared notions
\* (timestamp, origin_id) of an operation or of a history record
Version(r) == MetaOf(r.ts, r.node_id)

\* the data record an operation stands for
Effect(op) == IF op.op = "PUT" THEN op.value ELSE Absent

\* no notification and no operation is being processed at the site
QuietSite(s) == wpc[s] = "idle" /\ apc[s] = "idle"

\* nothing is in flight anywhere: every loop idle, every feed drained
Quiescent ==
  \A s \in Sites :
    /\ QuietSite(s)
    /\ epc[s] = "idle"
    /\ watchq[s] = <<>>
    /\ acked[s] = 1..Len(stream)

\* further Anti-Entropy cycles would change nothing: whatever a site would
\* re-broadcast is self-discarded or loses at every other site
AEStable ==
  \A s \in Sites, t \in Sites, k \in Keys :
    (kv[s][k] # Absent /\ kvMeta[s][k] # NoMeta) =>
      LET op == AEOp(k, kv[s][k], kvMeta[s][k])
      IN IsSelfEcho(op, t) \/ ~RemoteWins(op, LocalMetaOf(t, k))

Converged ==
  \A s \in Sites, t \in Sites, k \in Keys :
    kv[s][k] = kv[t][k] /\ kvMeta[s][k] = kvMeta[t][k]

\* a step in which message i is delivered to the site's Applier
Delivered(s, i) ==
  /\ apc[s] = "idle"
  /\ aidx'[s] = i
  /\ <<aidx[s], again[s], acked[s], apc[s]>> # <<aidx'[s], again'[s], acked'[s], apc'[s]>>

\* the site's Applier has processed every operation of the stream
ProcessedAll(s) == apc[s] = "idle" /\ acked[s] = 1..Len(stream)

\* ------------------------------------------------------------- C1
\* C1 (Applier order-independence): when no operation of the stream was
\* originated by a receiving site and both sites, starting without a record,
\* have processed every operation at least once - in any order, with any
\* duplicates - they hold the same data value and the same metadata record.
C1_ApplierConvergence ==
  ((\A i \in 1..Len(stream) : stream[i].node_id \notin Sites)
     /\ \A s \in Sites : ProcessedAll(s))
    => Converged

\* ------------------------------------------------------------- C2
\* C2 (system-wide eventual convergence): once every write has been made and
\* every Watcher, Applier and Anti-Entropy loop has nothing left to do (and
\* nothing a further Anti-Entropy cycle would publish can change any site),
\* all sites hold the same value and the same metadata record for every key.
\* Runs in which a store write failed are left aside.
C2_EventualConvergence == (nfail = 0 /\ Quiescent /\ AEStable) => Converged

\* ------------------------------------------------------------- C3
\* C3 (every genuine local write is replicated): whenever the Watcher takes a
\* change notification caused by a user write, it goes on to write the
\* metadata record {clock, local site id} and to publish one operation with
\* that key, kind and value - whichever site the key's metadata record names.
C3_EveryLocalWriteReplicated ==
  [][\A s \in Sites :
       /\ (Len(watchq'[s]) < Len(watchq[s]) /\ Head(watchq[s]).cause = "user")
            => (wpc'[s] = "put" /\ wentry'[s] = Head(watchq[s]))
       /\ (wpc[s] = "put" /\ wpc'[s] = "publish")
            => kvMeta'[s][wentry[s].key] = MetaOf(clock[s], s)
       /\ (wpc[s] = "publish" /\ wpc'[s] = "idle" /\ apc[s] # "dead")
            => stream' = Append(stream,
                 Operation(IF wentry[s].operation = "DEL" THEN "DEL" ELSE "PUT",
                           wentry[s].key, wentry[s].value,
                           kvMeta[s][wentry[s].key].ts, s))
    ]_vars

\* ------------------------------------------------------------- C4
\* the two operations on the stream tie on the timestamp, name the same key
\* and two different origins, neither of them site s
TiePair(s) ==
  /\ Len(stream) = 2
  /\ stream[1].key = stream[2].key
  /\ stream[1].ts = stream[2].ts
  /\ stream[1].node_id # stream[2].node_id
  /\ stream[1].node_id # s /\ stream[2].node_id # s

\* of the two, the position of the operation with the greater origin_id
TieWinner == IF NodeRank(stream[1].node_id) > NodeRank(stream[2].node_id) THEN 1 ELSE 2

\* C4 (tie-break determinism): an operation delivered with the timestamp of
\* the key's metadata record is applied iff its origin_id is greater than
\* the recorded one; and a site that has processed two operations tying on
\* the timestamp holds the value and metadata of the one with the greater
\* origin_id, whichever arrived first.
C4_TieBreakDeterminism ==
  /\ [][\A s \in Sites : \A i \in 1..Len(stream) :
          (Delivered(s, i) /\ stream[i].node_id # s
             /\ stream[i].ts = kvMeta[s][stream[i].key].ts)
            => ((apc'[s] = "meta") <=>
                  (NodeRank(stream[i].node_id)
                     > NodeRank(kvMeta[s][stream[i].key].node_id)))
       ]_vars
  /\ [](\A s \in Sites :
          (TiePair(s) /\ ProcessedAll(s)) =>
            LET w == stream[TieWinner]
            IN kvMeta[s][w.key] = Version(w) /\ kv[s][w.key] = Effect(w))

\* reached: the operation with the smaller origin_id arrived last and was dropped
C4_Witness ==
  \E s \in Sites :
    /\ TiePair(s) /\ ProcessedAll(s)
    /\ aidx[s] # TieWinner /\ ~again[s]
    /\ kvMeta[s][stream[1].key] = Version(stream[TieWinner])

\* ------------------------------------------------------------- C5
\* C5 (tombstone precedence): while the greatest operation a site has
\* accepted for a key is a DELETE, at every quiet moment of the site the
\* metadata record carries that DELETE's (timestamp, origin_id); the Applier
\* never writes the metadata or the data of a PUT that is smaller than an
\* accepted DELETE; and no step removes a metadata record.
C5_TombstonePrecedence ==
  /\ [](\A s \in Sites, k \in Keys :
          (QuietSite(s) /\ maxAcc[s][k].op = "DEL")
            => kvMeta[s][k] = Version(maxAcc[s][k]))
  /\ [][\A s \in Sites, k \in Keys :
          /\ (apc[s] \in {"meta", "data"} /\ apc'[s] \in {"data", "idle"}
                /\ stream[aidx[s]].key = k /\ stream[aidx[s]].op = "PUT"
                /\ maxAcc[s][k].op = "DEL")
               => ~VersionLT(stream[aidx[s]], maxAcc[s][k])
          /\ kvMeta[s][k] # NoMeta => kvMeta'[s][k] # NoMeta
       ]_vars

\* ------------------------------------------------------------- C6
\* C6 (self-echo suppression): the Applier never holds an operation of its
\* own site on the apply path, and the step that delivers such an operation
\* leaves the site's data and metadata records alone and acknowledges it.
C6_SelfEchoSuppression ==
  /\ [](\A s \in Sites :
          apc[s] \in {"meta", "data"} => stream[aidx[s]].node_id # s)
  /\ [][\A s \in Sites : \A i \in 1..Len(stream) :
          (Delivered(s, i) /\ stream[i].node_id = s)
            => /\ kv'[s] = kv[s] /\ kvMeta'[s] = kvMeta[s]
               /\ apc'[s] = "idle" /\ i \in acked'[s]
       ]_vars

\* reached: a site without a record for the key acknowledged an operation
\* naming itself as origin, and still has no record
C6_Witness ==
  \E s \in Sites : \E i \in 1..Len(stream) :
    /\ stream[i].node_id = s /\ i \in acked[s] /\ aidx[s] = i /\ apc[s] = "idle"
    /\ kvMeta[s][stream[i].key] = NoMeta /\ kv[s][stream[i].key] = Absent

\* ------------------------------------------------------------- C7
\* C7 (redelivery idempotence): while the Applier processes a delivery that
\* repeats the delivery just before it, the site's data and metadata records
\* do not change: processing twice ends where processing once ended.
C7_RedeliveryIdempotence ==
  [][\A s \in Sites :
       again'[s] => (kv'[s] = kv[s] /\ kvMeta'[s] = kvMeta[s])
    ]_vars

\* reached: an operation was applied, delivered again at once and processed
C7_Witness ==
  \E s \in Sites :
    /\ again[s] /\ apc[s] = "idle" /\ aidx[s] \in acked[s]
    /\ stream[aidx[s]].node_id # s
    /\ kvMeta[s][stream[aidx[s]].key] = Version(stream[aidx[s]])
    /\ kv[s][stream[aidx[s]].key] = Effect(stream[aidx[s]])

\* ------------------------------------------------------------- C8
\* C8 (no update is lost on an apply error): when a store write failed while
\* the Applier was applying an operation and the operation has since been
\* redelivered and acknowledged, the site's metadata record is at least the
\* operation's version and, when equal to it, the data record is the
\* operation's effect.  (Sites without user writes of their own: everything
\* in their stores comes from the Applier.)
C8_NoUpdateLostOnApplyError ==
  \A s \in Sites :
    \A i \in failed[s] :
      (i \in acked[s] /\ QuietSite(s) /\ nwrites[s] = 0) =>
        LET op == stream[i]
        IN /\ ~VersionLT(kvMeta[s][op.key], op)
           /\ kvMeta[s][op.key] = Version(op) => kv[s][op.key] = Effect(op)

\* ------------------------------------------------------------- C9
\* C9 (metadata invariant): at every quiet moment of a site, the metadata
\* record of each key is the (timestamp, origin_id) of the greatest operation
\* the site has accepted for the key.
C9_MetadataIsGreatestAccepted ==
  \A s \in Sites, k \in Keys :
    QuietSite(s) => kvMeta[s][k] = Version(maxAcc[s][k])

\* ------------------------------------------------------------- C10
\* C10 (Anti-Entropy is a no-op when converged): from a state in which all
\* sites hold the same value and metadata record for every key and no
\* Applier is applying, no step of an Anti-Entropy cycle or of an Applier
\* changes a data value or a metadata record, and no Applier starts applying
\* (every re-broadcast operation is self-discarded or dropped).
C10_AntiEntropyNoOp ==
  [][(Converged /\ \A s \in Sites : apc[s] = "idle")
       => /\ kv' = kv /\ kvMeta' = kvMeta
          /\ \A s \in Sites : apc'[s] = "idle"
    ]_vars

\* reached: the sites agree on a present key, one of them re-broadcast it
\* with the stored version and every site has consumed the re-broadcast
C10_Witness ==
  /\ Converged
  /\ Len(stream) >= 1
  /\ \A s \in Sites : ProcessedAll(s) /\ epc[s] = "idle"
  /\ \A s \in Sites :
       /\ kv[s][stream[1].key] = stream[1].value
       /\ kvMeta[s][stream[1].key] = Version(stream[1])

\* ------------------------------------------------------------- C11
\* C11 (echo suppression under interleaving): in runs without a store
\* failure, whenever the Watcher takes a change notification that the
\* Applier's own data write produced, it discards it: it does not go on to
\* stamp the key with the local site id and publishes nothing.
C11_EchoSuppression ==
  [][\A s \in Sites :
       (nfail = 0 /\ Len(watchq'[s]) < Len(watchq[s])
          /\ Head(watchq[s]).cause = "applier")
         => (wpc'[s] = "idle" /\ stream' = stream)
    ]_vars

\* ------------------------------------------------------------- C12
\* C12 (Applier per-message lifecycle): a delivery is acknowledged once, in
\* the step that ends its processing - the delivering step itself for a
\* self-originated or losing operation, which writes nothing, or the data
\* write of a winning one; a winning operation goes idle -> metadata write
\* -> data write -> acknowledged, in that order; and another message is
\* taken only when the Applier is idle and the previous one is acknowledged.
C12_ApplierLifecycle ==
  [][\A s \in Sites :
       LET op == stream[aidx'[s]]
           k == op.key
       IN /\ acked'[s] # acked[s] =>
               /\ acked'[s] = acked[s] \cup {aidx'[s]} /\ aidx'[s] \notin acked[s]
               /\ apc'[s] = "idle"
               /\ \/ /\ apc[s] = "idle"
                     /\ kv'[s] = kv[s] /\ kvMeta'[s] = kvMeta[s]
                     /\ op.node_id = s \/ ~RemoteWins(op, LocalMetaOf(s, k))
                  \/ apc[s] = "data" /\ aidx'[s] = aidx[s]
          /\ (apc[s] = "idle" /\ apc'[s] # "idle") =>
               /\ apc'[s] = "meta" /\ op.node_id # s
               /\ RemoteWins(op, LocalMetaOf(s, k))
               /\ acked'[s] = acked[s] /\ kv'[s] = kv[s] /\ kvMeta'[s] = kvMeta[s]
          /\ (apc[s] = "meta" /\ apc'[s] # "meta" /\ apc'[s] # "dead") =>
               /\ apc'[s] = "data" /\ aidx'[s] = aidx[s]
               /\ kvMeta'[s][k] = Version(op)
               /\ acked'[s] = acked[s] /\ kv'[s] = kv[s]
          /\ (apc[s] = "data" /\ apc'[s] # "data" /\ apc'[s] # "dead") =>
               /\ apc'[s] = "idle" /\ aidx'[s] = aidx[s]
               /\ kv'[s][k] = Effect(op) /\ kvMeta'[s] = kvMeta[s]
               /\ aidx[s] \in acked'[s] /\ aidx[s] \notin acked[s]
          /\ (aidx'[s] # aidx[s] /\ aidx'[s] # 0) =>
               /\ apc[s] = "idle"
               /\ aidx[s] = 0 \/ aidx[s] \in acked[s]
    ]_vars

\* reached: a site acknowledged its own operation at once, then took the
\* next one, applied it (metadata, then data) and acknowledged it
C12_Witness ==
  \E s \in Sites :
    /\ Cardinality(acked[s]) = 2 /\ aidx[s] = 2 /\ apc[s] = "idle" /\ nfail = 0
    /\ stream[1].node_id = s /\ stream[2].node_id # s
    /\ kvMeta[s][stream[2].key] = Version(stream[2])
    /\ kv[s][stream[2].key] = Effect(stream[2])

\* ------------------------------------------------------------- C13
\* C13 (a losing operation changes nothing): the step that delivers an
\* operation of another origin whose (timestamp, origin_id) is less than or
\* equal to the key's metadata record leaves every data and metadata record
\* alone, publishes nothing, leaves the Applier idle and acknowledges it.
C13_LosingOperationChangesNothing ==
  [][\A s \in Sites : \A i \in 1..Len(stream) :
       (Delivered(s, i) /\ stream[i].node_id # s
          /\ kvMeta[s][stream[i].key] # NoMeta
          /\ ~VersionLT(kvMeta[s][stream[i].key], stream[i]))
         => /\ kv' = kv /\ kvMeta' = kvMeta /\ stream' = stream
            /\ watchq' = watchq
            /\ apc'[s] = "idle" /\ i \in acked'[s]
    ]_vars

\* reached: a site holding a greater record took a smaller operation for the
\* first time, acknowledged it and kept its record
C13_Witness ==
  \E s \in Sites :
    /\ apc[s] = "idle" /\ aidx[s] \in acked[s] /\ ~again[s]
    /\ stream[aidx[s]].node_id # s
    /\ VersionLT(stream[aidx[s]], kvMeta[s][stream[aidx[s]].key])
    /\ Cardinality(acked[s]) = 2

\* ------------------------------------------------------------- C14
\* a step of the site's Anti-Entropy cycle (not the restart of the agent)
AEStep(s) ==
  /\ apc[s] # "dead"
  /\ <<epc[s], ekeys[s], ekey[s], evalue[s], emeta[s]>>
       # <<epc'[s], ekeys'[s], ekey'[s], evalue'[s], emeta'[s]>>

\* C14 (Anti-Entropy re-broadcasts stored versions): no step of an
\* Anti-Entropy cycle writes a data or metadata record; a cycle walks the
\* keys present in the data store; for each it reads the stored value and
\* then the stored metadata record, skips the key when either is missing,
\* and otherwise publishes exactly one PUT carrying that value and that
\* record's timestamp and origin_id (not the clock, not the local site id).
C14_AntiEntropyUsesStoredVersions ==
  [][\A s \in Sites :
       /\ (AEStep(s) \/ ncycles' # ncycles) => (kv' = kv /\ kvMeta' = kvMeta)
       /\ (AEStep(s) /\ epc[s] = "idle") =>
            ekeys'[s] = {k \in Keys : kv[s][k] # Absent}
       /\ (AEStep(s) /\ epc[s] = "iter") =>
            (evalue'[s] = kv[s][ekey'[s]] /\ stream' = stream)
       /\ (AEStep(s) /\ epc[s] = "getmeta") =>
            /\ emeta'[s] = kvMeta[s][ekey[s]] /\ stream' = stream
            /\ (epc'[s] = "publish") <=>
                 (evalue[s] # Absent /\ kvMeta[s][ekey[s]] # NoMeta)
       /\ (AEStep(s) /\ epc[s] = "publish") =>
            stream' = Append(stream,
              [op |-> "PUT", key |-> ekey[s], value |-> evalue[s],
               ts |-> emeta[s].ts, node_id |-> emeta[s].node_id])
    ]_vars

\* reached: a site re-broadcast a key it received from the other site, after
\* its clock had moved on: the operation repeats the original one
C14_Witness ==
  \E s \in Sites :
    /\ Len(stream) = 2 /\ stream[2] = stream[1] /\ TotalWrites = 1 /\ nwrites[s] = 0
    /\ ncycles = 1 /\ epc[s] = "idle" /\ ekey[s] = stream[2].key
    /\ stream[2].node_id # s /\ clock[s] > stream[2].ts
    /\ kvMeta[s][stream[2].key] = Version(stream[2])

\* ------------------------------------------------------------- C15
\* nothing any other site would re-broadcast can change site s any more
StableSite(s) ==
  \A u \in Sites \ {s}, k \in Keys :
    (kv[u][k] # Absent /\ kvMeta[u][k] # NoMeta) =>
      LET op == AEOp(k, kv[u][k], kvMeta[u][k])
      IN IsSelfEcho(op, s) \/ ~RemoteWins(op, LocalMetaOf(s, k))

\* C15 (Anti-Entropy repairs delivery gaps): site s holds value v under
\* metadata record m for a key, m's origin is not site t, and the state of s
\* no longer changes; once an Anti-Entropy cycle of s has re-broadcast the
\* key and every Applier has consumed the whole stream, t holds a metadata
\* record greater than or equal to m and, when equal to m, the value v.
C15_AntiEntropyRepairsGaps ==
  \A s \in Sites, t \in Sites, k \in Keys :
    (/\ s # t
     /\ \A u \in Sites : ProcessedAll(u) /\ epc[u] = "idle"
     /\ StableSite(s)
     /\ kv[s][k] # Absent /\ kvMeta[s][k] # NoMeta
     /\ kvMeta[s][k].node_id # t
     /\ \E i \in 1..Len(stream) : stream[i] = AEOp(k, kv[s][k], kvMeta[s][k]))
      => /\ ~VersionLT(kvMeta[t][k], kvMeta[s][k])
         /\ kvMeta[t][k] = kvMeta[s][k] => kv[t][k] = kv[s][k]

\* ------------------------------------------------------------- C16
\* C16 (Anti-Entropy error isolation): when a read or the publish fails
\* during a cycle, only the key being worked on is given up - the keys not
\* yet visited stay to be re-broadcast and the cycle goes on with them - and
\* the site can start later cycles.
C16_AntiEntropyErrorIsolation ==
  [][\A s \in Sites :
       (AEStep(s) /\ nfail' = nfail + 1) =>
         /\ epc[s] \in {"getmeta", "publish"} =>
              (ekeys'[s] = ekeys[s] /\ epc'[s] = AEAfterKey(s))
         /\ epc[s] = "iter" =>
              \E k \in ekeys[s] :
                /\ ekeys'[s] = ekeys[s] \ {k}
                /\ epc'[s] = IF ekeys'[s] = {} THEN "idle" ELSE "iter"
         /\ epc'[s] \in {"idle", "iter"}
    ]_vars

\* ------------------------------------------------------------- C17
\* C17 (Watcher error isolation): when the metadata read, the metadata write
\* or the publish fails on a notification, that notification is given up
\* (it does not return to the feed and nothing is published for it) and the
\* Watcher is ready for the next notification; the site's other loops are
\* not affected.
C17_WatcherErrorIsolation ==
  [][\A s \in Sites :
       (nfail' = nfail + 1 /\ wpc[s] # "dead"
          /\ <<wpc[s], watchq[s]>> # <<wpc'[s], watchq'[s]>>)
         => /\ wpc'[s] = "idle" /\ apc'[s] = apc[s]
            /\ stream' = stream
            /\ watchq'[s] = IF wpc[s] = "idle" THEN Tail(watchq[s]) ELSE watchq[s]
    ]_vars

\* ------------------------------------------------------------- C18
\* site s missed the DELETE of key k that site t holds: s has a value under
\* a smaller record (or none), t has the tombstone record and no value
MissedDelete(s, t, k) ==
  /\ kv[s][k] # Absent
  /\ kv[t][k] = Absent /\ kvMeta[t][k] # NoMeta
  /\ VersionLT(kvMeta[s][k], kvMeta[t][k])

\* C18 (a missed DELETE is never repaired): an Anti-Entropy cycle publishes
\* only for keys it found in the data store; and once a site has missed a
\* DELETE no step of any Anti-Entropy cycle or Applier ends that: the site
\* keeps its old value and record, the other keeps the key absent under its
\* tombstone record.
C18_MissedDeleteNeverRepaired ==
  [][/\ \A s \in Sites :
          (AEStep(s) /\ stream' # stream) =>
            /\ Len(stream') = Len(stream) + 1
            /\ evalue[s] # Absent
            /\ stream'[Len(stream')].op = "PUT"
            /\ stream'[Len(stream')].value = evalue[s]
     /\ \A s \in Sites, t \in Sites, k \in Keys :
          MissedDelete(s, t, k) =>
            /\ kv'[s][k] = kv[s][k] /\ kvMeta'[s][k] = kvMeta[s][k]
            /\ kv'[t][k] = Absent /\ kvMeta'[t][k] = kvMeta[t][k]
    ]_vars

\* reached: the site that missed the DELETE re-broadcast its old value, both
\* sites consumed it, two cycles have run, and nothing has changed
C18_Witness ==
  \E s \in Sites, t \in Sites, k \in Keys :
    /\ MissedDelete(s, t, k)
    /\ ncycles >= 2
    /\ \A u \in Sites : ProcessedAll(u) /\ epc[u] = "idle"
    /\ Len(stream) >= 1 /\ stream[1] = AEOp(k, kv[s][k], kvMeta[s][k])
    /\ kvMeta[s][k].node_id # t

C20_MetadataNeverMovesBackwards ==
  [][\A s \in Sites, k \in Keys :
       ~VersionLT(kvMeta'[s][k], kvMeta[s][k])
    ]_vars

\* ------------------------------------------------------------- C21
\* C21 (version identifies content): any two operations on the stream -
\* published by a Watcher or by an Anti-Entropy cycle - with the same key,
\* timestamp and origin_id have the same kind and the same value.
C21_VersionIdentifiesContent ==
  \A i \in 1..Len(stream), j \in 1..Len(stream) :
    (stream[i].key = stream[j].key /\ stream[i].ts = stream[j].ts
       /\ stream[i].node_id = stream[j].node_id)
      => (stream[i].op = stream[j].op /\ stream[i].value = stream[j].value)

\* ------------------------------------------------------------- C22
\* no notification and no operation waits at the site, and neither its
\* Watcher nor its Applier is working on anything
SiteAtRest(s) ==
  QuietSite(s) /\ watchq[s] = <<>> /\ acked[s] = 1..Len(stream)

\* C22 (data matches its version marker): whenever a site is at rest, every
\* key with a metadata record (t, o) has the data record that an operation
\* published for that key with timestamp t and origin_id o stands for - its
\* value for a PUT, no record for a DELETE.
C22_DataMatchesVersion ==
  \A s \in Sites, k \in Keys :
    (SiteAtRest(s) /\ kvMeta[s][k] # NoMeta) =>
      \E i \in 1..Len(stream) :
        /\ stream[i].key = k /\ Version(stream[i]) = kvMeta[s][k]
        /\ kv[s][k] = Effect(stream[i])

\* ------------------------------------------------------------- C23
\* C23 (successive local writes supersede each other): of two operations a
\* site's Watcher published for the same key, the later one has a strictly
\* greater timestamp than the earlier one (so that the LWW rule lets it win
\* wherever the earlier one was applied) - also when the Watcher processed
\* both notifications within one tick of the clock.
C23_SuccessiveWritesSupersede ==
  \A i \in 1..Len(stream), j \in 1..Len(stream) :
    (i < j /\ stream[i].node_id = stream[j].node_id
       /\ stream[i].key = stream[j].key)
      => stream[i].ts < stream[j].ts

====
